---- MODULE Spec2Model ----
(***************************************************************************)
(* A model of package mill (jrick/mill): the asynchronous dispatch and     *)
(* write-ordering engine of Log and Sync, the text and JSON codecs that    *)
(* it drives, and the callers that use them; the contexts that carry the   *)
(* codec lists, tag lists and debug flags; Debug; and the typed value      *)
(* model Data.                                                             *)
(*                                                                         *)
(* Goroutines are modelled one step per statement that touches shared      *)
(* state: the caller of Log, the caller of Sync, one encode task per codec *)
(* of a Log call, and the watcher goroutine of a Log call.                 *)
(***************************************************************************)
EXTENDS Integers, Sequences, FiniteSets, TLC

(***************************************************************************)
(* Bounds of the model.                                                    *)
(***************************************************************************)
MaxCalls == 3      \* Log calls on contexts with codecs (Spec)
MaxAsync == 2      \* Log calls on contexts with codecs (SpecAsync)
MaxLive == 2       \* Log calls on contexts with codecs (SpecLive)
MaxNoop == 1       \* Log calls on contexts without a codec
MaxTime == 1       \* the last reading of the wall clock
MaxMut == 1        \* mutations a caller makes of its boxed value

\* The value the boxed counter starts with (TestLogEncodesBeforeReturn).
InitVal == 123

\* The goroutines that call Log and Sync.
Procs == {"p1", "p2"}
NoProc == "none"

VARIABLES
    pc,          \* pc[p]: where caller p is
    arg,         \* arg[p]: the arguments of p's current Log call
    cur,         \* cur[p]: the call p is in (its index in calls), or 0
    stok,        \* stok[p]: Sync's local writesDone
    val,         \* val[p]: the boxed counter p passes to Log by reference
    mu,          \* globalLogSyncer.mu: its holder, or NoProc
    writeReady,  \* globalLogSyncer.writeReady: the pending token
    closes,      \* closes[t]: how many times channel t was closed
    now,         \* the wall clock: its last reading
    calls,       \* the Log calls that swapped the token, in swap order
    sink,        \* the bytes of the sink: the entries written, in order
    open,        \* whether the sink's Write goes through
    noops,       \* Log calls that returned at the lookup
    heap,        \* the contexts derived so far, with the backing arrays of
                 \* their codec and tag slices and their debug cells
    globalDebugging,  \* globalDebugging.enabled
    dat,         \* the Data value a caller holds
    got          \* what the last accessor call on dat did

\* The engine and its callers / the contexts and the debug flags / the
\* value model.
engine == <<pc, arg, cur, stok, val, mu, writeReady, closes, now,
            calls, sink, open, noops>>
world == <<heap, globalDebugging>>
probe == <<dat, got>>

vars == <<engine, world, probe>>

(***************************************************************************)
(* Codecs and contexts.  Both codecs write to the same sink: a buffer, or a *)
(* writer that blocks every Write until it is released                     *)
(* (blockingConcurrentSafeBuffer).                                         *)
(***************************************************************************)
TextCodec == "text"
JSONCodec == "json"

\* type KV struct { Key, Value string }: a tag, or a tag pair.
KV(k, v) == [Key |-> k, Value |-> v]

(***************************************************************************)
(* Contexts.  A context carries, under three keys, a slice of codecs, a    *)
(* slice of tags and a pointer to a debug cell.  A slice is a window       *)
(* [arr, len] on a backing array; arrays live on the heap and are shared   *)
(* by every slice that was appended to in place.                           *)
(***************************************************************************)
MaxCtx == 5        \* contexts derived from context.Background() (SpecCtx)

\* The derived contexts, named in the order of their derivation.
CtxName == <<"c1", "c2", "c3", "c4", "c5", "c6", "c7", "c8", "c9", "c10">>
CtxIndex(c) == CHOOSE i \in 1..Len(CtxName) : CtxName[i] = c

\* var loggers []Codec / var tags []KV: the nil slice.
NilSlice == [arr |-> 0, len |-> 0]

\* context.Background(): none of the keys has a value.
Background ==
    [loggers |-> NilSlice, tags |-> NilSlice, cell |-> 0, parent |-> "bg"]

\* No context derived yet.  larr and tarr are the backing arrays of the
\* codec and tag slices, cells the debugValue structs, ctxs the derived
\* contexts; made[i] is the codec list and tag list context i was derived
\* with: those of its parent at that moment and the element added.
NoHeap ==
    [larr |-> <<>>, tarr |-> <<>>, cells |-> <<>>, ctxs |-> <<>>,
     made |-> <<>>]

Derived(h) == {CtxName[i] : i \in 1..Len(h.ctxs)}
Known(h) == {"bg"} \cup Derived(h)
Ctx(h, c) == IF c \in Derived(h) THEN h.ctxs[CtxIndex(c)] ELSE Background

\* cap(s) and the elements of s, read through the backing array.
Cap(arrays, s) == IF s.arr = 0 THEN 0 ELSE Len(arrays[s.arr])
Elems(arrays, s) == [i \in 1..s.len |-> arrays[s.arr][i]]

\* The capacity append gives a new backing array (runtime growslice, for
\* the short lists of this model): the old capacity doubled.
GrowCap(old, need) == IF need > 2 * old THEN need ELSE 2 * old

\* An append that stores over the last element when there is room.
GoAppendOverLast(arrays, s, x, zero) ==
    IF s.len >= 1
    THEN [arrays |-> [arrays EXCEPT ![s.arr][s.len] = x], s |-> s]
    ELSE [arrays |-> Append(arrays, <<x>>),
          s |-> [arr |-> Len(arrays) + 1, len |-> 1]]

\* append(s, x): when s has room the element is stored in the backing array
\* of s, past its length; otherwise the elements move to a new array.
GoAppend(arrays, s, x, zero) ==
    IF s.len < Cap(arrays, s)
    THEN [arrays |-> [arrays EXCEPT ![s.arr][s.len + 1] = x],
          s |-> [arr |-> s.arr, len |-> s.len + 1]]
    ELSE LET n == GrowCap(Cap(arrays, s), s.len + 1)
             a == [i \in 1..n |-> IF i <= s.len THEN arrays[s.arr][i]
                                  ELSE IF i = s.len + 1 THEN x ELSE zero]
         IN  [arrays |-> Append(arrays, a),
              s |-> [arr |-> Len(arrays) + 1, len |-> s.len + 1]]

\* ctx.Value(loggerKey{}) and ctx.Value(contextTags{}) of a context of h.
LoggersIn(h, c) == Elems(h.larr, Ctx(h, c).loggers)
TagsIn(h, c) == Elems(h.tarr, Ctx(h, c).tags)

\* A WithLogger that makes a debug cell of its own every time.
WithLoggerOpOwnCell(h, c, codec) ==
    LET par == Ctx(h, c)
        r == GoAppend(h.larr, par.loggers, codec, "nil")
    IN  [larr |-> r.arrays,
         tarr |-> h.tarr,
         cells |-> Append(h.cells, FALSE),
         ctxs |-> Append(h.ctxs,
                     [loggers |-> r.s, tags |-> par.tags,
                      cell |-> Len(h.cells) + 1, parent |-> c]),
         made |-> Append(h.made,
                     [loggers |-> Append(LoggersIn(h, c), codec),
                      tags |-> TagsIn(h, c)])]

\* WithLogger(c, codec): the debug cell is made when the chain has none, and
\* the codec is appended to the list read through c.
WithLoggerOp(h, c, codec) ==
    LET par == Ctx(h, c)
        r == GoAppend(h.larr, par.loggers, codec, "nil")
        fresh == par.cell = 0
    IN  [larr |-> r.arrays,
         tarr |-> h.tarr,
         cells |-> IF fresh THEN Append(h.cells, FALSE) ELSE h.cells,
         ctxs |-> Append(h.ctxs,
                     [loggers |-> r.s, tags |-> par.tags,
                      cell |-> IF fresh THEN Len(h.cells) + 1 ELSE par.cell,
                      parent |-> c]),
         made |-> Append(h.made,
                     [loggers |-> Append(LoggersIn(h, c), codec),
                      tags |-> TagsIn(h, c)])]

\* WithLogTag(c, tag) with kv = KV{Key: tag}, WithLogTagPair(c, k, v) with
\* kv = KV{k, v}: the tag is appended to the list read through c.
WithLogTagOp(h, c, kv) ==
    LET par == Ctx(h, c)
        r == GoAppend(h.tarr, par.tags, kv, KV("", ""))
    IN  [larr |-> h.larr,
         tarr |-> r.arrays,
         cells |-> h.cells,
         ctxs |-> Append(h.ctxs,
                     [loggers |-> par.loggers, tags |-> r.s,
                      cell |-> par.cell, parent |-> c]),
         made |-> Append(h.made,
                     [loggers |-> LoggersIn(h, c),
                      tags |-> Append(TagsIn(h, c), kv)])]

\* The context the next derivation returns.
NextCtx(h) == CtxName[Len(h.ctxs) + 1]

\* ctx.Value(loggerKey{}): the codec list attached to a context.
Loggers(ctx) ==
    CASE ctx = "A"  -> <<TextCodec>>
      [] ctx = "B"  -> <<JSONCodec>>
      [] ctx = "AB" -> <<TextCodec, JSONCodec>>
      [] ctx \in Derived(heap) -> LoggersIn(heap, ctx)
      [] OTHER      -> <<>>

\* ctx.Value(contextTags{}): the tag list attached to a context.
Tags(ctx) ==
    CASE ctx = "bg"  -> <<>>
      [] ctx = "tag" -> <<KV("k", "v")>>
      [] ctx = "AB"  -> <<KV("k", "v")>>
      [] ctx \in Derived(heap) -> TagsIn(heap, ctx)
      [] OTHER       -> <<>>

\* The contexts the callers of the engine hold: A == WithLogger(bg, text),
\* B == WithLogger(bg, json), AB == WithLogger(WithLogTagPair(A, "k", "v"),
\* json), tag == WithLogTagPair(bg, "k", "v").
\* The arguments of the Log calls the callers make: a context and a Float64
\* datum, next to the caller's boxed counter.  "nan" is Float64("x", NaN),
\* which the text codec renders and json.Marshal rejects.
LogInputs ==
    { [ctx |-> "A", d |-> "ok"], [ctx |-> "B", d |-> "ok"],
      [ctx |-> "B", d |-> "nan"], [ctx |-> "AB", d |-> "nan"] }
AsyncInputs ==
    { [ctx |-> "A", d |-> "ok"], [ctx |-> "B", d |-> "ok"],
      [ctx |-> "B", d |-> "nan"], [ctx |-> "tag", d |-> "ok"] }
LiveInputs ==
    { [ctx |-> "A", d |-> "ok"], [ctx |-> "B", d |-> "ok"],
      [ctx |-> "B", d |-> "nan"], [ctx |-> "AB", d |-> "ok"] }
NoArg == [ctx |-> "bg", d |-> "ok"]

Tokens == 0..(MaxCalls + 1)

\* A read of a channel unblocks once the channel is closed.
Fired(t) == closes[t] > 0

\* Log without its lookup of the codec list.
HasLoggersAlways(ctx) == TRUE

\* if v := ctx.Value(loggerKey{}); v != nil
HasLoggers(ctx) == Loggers(ctx) # <<>>

\* Log calls with codecs that were started, swapped or not.
Started ==
    Len(calls) + Cardinality({p \in Procs : pc[p] \in {"lock", "swap"}})

(***************************************************************************)
(* The typed value model (Data).  Machine integers are modelled with a     *)
(* width of Width bits in place of 64, a float64 as its sign, exponent and *)
(* fraction fields, in place of 1, 11 and 52 bits.                         *)
(***************************************************************************)
ExpBits == 2       \* bits of the exponent field of a float
FracBits == 2      \* bits of the fraction field of a float
Width == 1 + ExpBits + FracBits

ValueTypeUnknown == 0
ValueTypeString == 1
ValueTypeInt64 == 2
ValueTypeUint64 == 3
ValueTypeFloat64 == 4
ValueTypeAny == 5

\* The values of the kinds: strings, int64, uint64, float64 (with the
\* infinities and NaNs, which are the floats of the largest exponent), and
\* boxed values, of which "stringer" implements fmt.Stringer.
Names == {"i", "x"}
StringValues == {"", "a", "b"}
Int64Values == (-(2 ^ (Width - 1)))..(2 ^ (Width - 1) - 1)
Uint64Values == 0..(2 ^ Width - 1)
Float64Values ==
    [sign : 0..1, exp : 0..(2 ^ ExpBits - 1), frac : 0..(2 ^ FracBits - 1)]
AnyValues == {"stringer", "plain"}

\* uint64(value) of an int64, and int64(bits) of a uint64.
ToUint64(v) == v % (2 ^ Width)
ToInt64Unsigned(u) == u
ToInt64(u) == IF u >= 2 ^ (Width - 1) THEN u - 2 ^ Width ELSE u

\* math.Float64bits and math.Float64frombits.
Float64bits(f) == f.sign * 2 ^ (Width - 1) + f.exp * 2 ^ FracBits + f.frac
Float64frombits(b) ==
    [sign |-> b \div 2 ^ (Width - 1),
     exp |-> (b \div 2 ^ FracBits) % (2 ^ ExpBits),
     frac |-> b % (2 ^ FracBits)]

\* The zero value of struct Data.
ZeroData ==
    [name |-> "", valueType |-> ValueTypeUnknown, string |-> "",
     numBits |-> 0, any |-> "nil"]

\* The constructors.
String(name, value) ==
    [ZeroData EXCEPT !.name = name, !.valueType = ValueTypeString,
                     !.string = value]
Int64(name, value) ==
    [ZeroData EXCEPT !.name = name, !.valueType = ValueTypeInt64,
                     !.numBits = ToUint64(value)]
Uint64(name, value) ==
    [ZeroData EXCEPT !.name = name, !.valueType = ValueTypeUint64,
                     !.numBits = value]
Float64(name, value) ==
    [ZeroData EXCEPT !.name = name, !.valueType = ValueTypeFloat64,
                     !.numBits = Float64bits(value)]
\* Any (the name Any is taken by module TLC).
AnyOf(name, value) ==
    [ZeroData EXCEPT !.name = name, !.valueType = ValueTypeAny,
                     !.any = value]

\* What a call does: it returns a value or it panics.
Returns(v) == [res |-> "value", v |-> v]
Panics(msg) == [res |-> "panic", v |-> msg]

\* A checkType that takes the two integer kinds for one another.
checkTypeIntegers(have, want) ==
    have = want \/ {have, want} = {ValueTypeInt64, ValueTypeUint64}

\* checkType(have, want): whether it returns (it panics otherwise).
checkType(have, want) == have = want

\* The accessors.
Data_Name(d) == Returns(d.name)
Data_Type(d) == Returns(d.valueType)
Data_String(d) ==
    IF checkType(d.valueType, ValueTypeString)
    THEN Returns(d.string) ELSE Panics("value type mismatch")
Data_Int64(d) ==
    IF checkType(d.valueType, ValueTypeInt64)
    THEN Returns(ToInt64(d.numBits)) ELSE Panics("value type mismatch")
Data_Uint64(d) ==
    IF checkType(d.valueType, ValueTypeUint64)
    THEN Returns(d.numBits) ELSE Panics("value type mismatch")
Data_Float64(d) ==
    IF checkType(d.valueType, ValueTypeFloat64)
    THEN Returns(Float64frombits(d.numBits))
    ELSE Panics("value type mismatch")
Data_Value(d) ==
    CASE d.valueType = ValueTypeString -> Returns(d.string)
      [] d.valueType = ValueTypeInt64 -> Returns(ToInt64(d.numBits))
      [] d.valueType = ValueTypeUint64 -> Returns(d.numBits)
      [] d.valueType = ValueTypeFloat64 ->
             Returns(Float64frombits(d.numBits))
      [] d.valueType = ValueTypeAny ->
             Returns(IF d.any = "stringer" THEN "String()" ELSE d.any)
      [] OTHER -> Panics("no data")

Accessors ==
    {"Name", "Type", "String", "Int64", "Uint64", "Float64", "Value"}

Access(op, d) ==
    CASE op = "Name" -> Data_Name(d)
      [] op = "Type" -> Data_Type(d)
      [] op = "String" -> Data_String(d)
      [] op = "Int64" -> Data_Int64(d)
      [] op = "Uint64" -> Data_Uint64(d)
      [] op = "Float64" -> Data_Float64(d)
      [] op = "Value" -> Data_Value(d)

\* No Data made by a constructor: the caller holds the zero value.
NoData == [d |-> ZeroData, kind |-> "zero", name |-> "", v |-> "nil"]
NoResult == [op |-> "none", res |-> "none", v |-> "nil"]

\* A caller makes a Data: dat keeps the struct next to the constructor call
\* that made it.
MakeData(kind, name, v, d) ==
    /\ dat' = [d |-> d, kind |-> kind, name |-> name, v |-> v]
    /\ got' = NoResult
    /\ UNCHANGED <<engine, world>>

MakeString == \E n \in Names, v \in StringValues :
                  MakeData("String", n, v, String(n, v))
MakeInt64 == \E n \in Names, v \in Int64Values :
                 MakeData("Int64", n, v, Int64(n, v))
MakeUint64 == \E n \in Names, v \in Uint64Values :
                  MakeData("Uint64", n, v, Uint64(n, v))
MakeFloat64 == \E n \in Names, v \in Float64Values :
                   MakeData("Float64", n, v, Float64(n, v))
MakeAny == \E n \in Names, v \in AnyValues :
               MakeData("Any", n, v, AnyOf(n, v))

\* A caller reads the Data it holds through an accessor.
ReadData(op) ==
    /\ got' = [op |-> op] @@ Access(op, dat.d)
    /\ UNCHANGED <<dat, engine, world>>

DataNext ==
    \/ MakeString \/ MakeInt64 \/ MakeUint64 \/ MakeFloat64 \/ MakeAny
    \/ \E op \in Accessors : ReadData(op)

\* An init that makes the first pending token and leaves it open.
InitSyncerNoClose ==
    /\ mu = NoProc
    /\ writeReady = 0
    /\ closes = [t \in Tokens |-> 0]

\* init(): the first pending token is made and closed.
InitSyncer ==
    /\ mu = NoProc
    /\ writeReady = 0
    /\ closes = [t \in Tokens |-> IF t = 0 THEN 1 ELSE 0]

InitCallers ==
    /\ pc = [p \in Procs |-> "idle"]
    /\ arg = [p \in Procs |-> NoArg]
    /\ cur = [p \in Procs |-> 0]
    /\ stok = [p \in Procs |-> 0]
    /\ val = [p \in Procs |-> InitVal]
    /\ now = 0
    /\ calls = <<>>
    /\ sink = <<>>
    /\ noops = 0

\* No context derived, debugging off, no Data made.
InitWorld ==
    /\ heap = NoHeap
    /\ globalDebugging = FALSE

InitProbe ==
    /\ dat = NoData
    /\ got = NoResult

\* The sink is a buffer: a Write goes through.
Init == InitSyncer /\ InitCallers /\ InitWorld /\ InitProbe /\ open = TRUE

\* The sink is a blockingConcurrentSafeBuffer whose channel is not closed.
InitBlocked ==
    InitSyncer /\ InitCallers /\ InitWorld /\ InitProbe /\ open = FALSE

(***************************************************************************)
(* The environment: the sink's release (close(w.c) in the tests), and the  *)
(* caller's mutation of its own value between calls (i.i++).               *)
(***************************************************************************)
OpenSink ==
    /\ ~open
    /\ open' = TRUE
    /\ UNCHANGED <<world, probe>>
    /\ UNCHANGED <<pc, arg, cur, stok, val, mu, writeReady, closes,
                   now, calls, sink, noops>>

Mutate(p) ==
    /\ pc[p] = "idle"
    /\ val[p] < InitVal + MaxMut
    /\ val' = [val EXCEPT ![p] = @ + 1]
    /\ UNCHANGED <<world, probe>>
    /\ UNCHANGED <<pc, arg, cur, stok, mu, writeReady, closes, now,
                   calls, sink, open, noops>>

(***************************************************************************)
(* Log                                                                     *)
(***************************************************************************)
\* Log is called with the arguments in; it looks the codec list up and
\* returns when there is none.
LogStart(p, in) ==
    /\ pc[p] = "idle"
    /\ IF HasLoggers(in.ctx)
       THEN /\ pc' = [pc EXCEPT ![p] = "lock"]
            /\ arg' = [arg EXCEPT ![p] = in]
            /\ UNCHANGED noops
       ELSE /\ noops' = noops + 1
            /\ UNCHANGED <<pc, arg>>
    /\ UNCHANGED <<world, probe>>
    /\ UNCHANGED <<cur, stok, val, mu, writeReady, closes, now,
                   calls, sink, open>>

LogCall(p) ==
    \E in \in LogInputs :
        /\ Started < MaxCalls
        /\ LogStart(p, in)

AsyncLogCall(p) ==
    \E in \in AsyncInputs :
        /\ IF Loggers(in.ctx) # <<>> THEN Started < MaxAsync
                                     ELSE noops < MaxNoop
        /\ LogStart(p, in)

LiveLogCall(p) ==
    \E in \in LiveInputs :
        /\ Started < MaxLive
        /\ LogStart(p, in)

LogLock(p) ==
    /\ pc[p] = "lock"
    /\ mu = NoProc
    /\ mu' = p
    /\ pc' = [pc EXCEPT ![p] = "swap"]
    /\ UNCHANGED <<world, probe>>
    /\ UNCHANGED <<arg, cur, stok, val, writeReady, closes, now,
                   calls, sink, open, noops>>

\* The record of a Log call: its arguments, its locals writeReady (gate) and
\* t, the WaitGroups encodesDone (enc) and writesDone (wr), its encode tasks
\* with their buffers (buf: the data, tg: the tags, as encoded), and its
\* watcher goroutine.  nextWriteReady is the call's index.  v is the value
\* of the boxed counter at the call.
NewCall(p, t) ==
    [p |-> p, ctx |-> arg[p].ctx, d |-> arg[p].d, gate |-> writeReady,
     t |-> t, v |-> val[p], enc |-> 0, wr |-> 0, task |-> <<>>,
     buf |-> <<>>, tg |-> <<>>, watch |-> "none"]

\* The token swap and t := time.Now(), under the lock, with the clock
\* reading t.
LogSwapAt(p, t) ==
    /\ pc[p] = "swap"
    /\ now' = t
    /\ calls' = Append(calls, NewCall(p, t))
    /\ writeReady' = Len(calls) + 1
    /\ cur' = [cur EXCEPT ![p] = Len(calls) + 1]
    /\ pc' = [pc EXCEPT ![p] = "unlock"]
    /\ UNCHANGED <<world, probe>>
    /\ UNCHANGED <<arg, stok, val, mu, closes, sink, open, noops>>

\* The swap within one reading of the clock.
LogSwap(p) == LogSwapAt(p, now)

\* The swap with a clock that runs: it never runs backwards.
ClockLogSwap(p) == \E t \in now..MaxTime : LogSwapAt(p, t)

\* Unlock, then the WaitGroups are set and the goroutines started.
LogDispatch(p) ==
    /\ pc[p] = "unlock"
    /\ mu' = NoProc
    /\ LET n == Len(Loggers(calls[cur[p]].ctx)) IN
       calls' = [calls EXCEPT ![cur[p]] =
                    [@ EXCEPT !.enc = n, !.wr = n,
                              !.task = [i \in 1..n |-> "encode"],
                              !.buf = [i \in 1..n |-> 0],
                              !.tg = [i \in 1..n |-> <<>>],
                              !.watch = "wait"]]
    /\ pc' = [pc EXCEPT ![p] = "wait"]
    /\ UNCHANGED <<world, probe>>
    /\ UNCHANGED <<arg, cur, stok, val, writeReady, closes, now,
                   sink, open, noops>>

\* Log that does not wait for the encodes.
EncodesDoneNoWait(k) == TRUE

\* Log that waits for the writes as well.
EncodesAndWritesDoneWait(k) == calls[k].enc = 0 /\ calls[k].wr = 0

\* encodesDone.Wait()
EncodesDoneWait(k) == calls[k].enc = 0

LogReturn(p) ==
    /\ pc[p] = "wait"
    /\ EncodesDoneWait(cur[p])
    /\ pc' = [pc EXCEPT ![p] = "idle"]
    /\ arg' = [arg EXCEPT ![p] = NoArg]
    /\ cur' = [cur EXCEPT ![p] = 0]
    /\ UNCHANGED <<world, probe>>
    /\ UNCHANGED <<stok, val, mu, writeReady, closes, now, calls, sink,
                   open, noops>>

(***************************************************************************)
(* The encode task of codec i of call k, and the watcher of call k.        *)
(***************************************************************************)
Codec(k, i) == Loggers(calls[k].ctx)[i]

\* The calls there can be, and the codecs a context can carry.
CallSlots == 1..MaxCalls
CodecSlots == 1..2

\* The goroutine of codec i of call k was started.
IsTask(k, i) == k \in 1..Len(calls) /\ i \in 1..Len(calls[k].task)

\* json.Marshal fails on a NaN; the text codec renders every value.
EncodeFails(k, i) == Codec(k, i) = JSONCodec /\ calls[k].d = "nan"

\* What the codec reads through the reference it was passed.
ReadValue(k) == val[calls[k].p]

\* The codec encodes the entry, reading the tags through the slice it was
\* passed and the data, and calls encodeDone.
Encode(k, i) ==
    /\ IsTask(k, i)
    /\ calls[k].task[i] = "encode"
    /\ calls' = [calls EXCEPT ![k] =
                    [@ EXCEPT !.buf[i] = ReadValue(k),
                              !.tg[i] = Tags(calls[k].ctx),
                              !.enc = @ - 1,
                              !.task[i] = IF EncodeFails(k, i)
                                          THEN "erred" ELSE "encoded"]]
    /\ UNCHANGED <<world, probe>>
    /\ UNCHANGED <<pc, arg, cur, stok, val, mu, writeReady, closes,
                   now, sink, open, noops>>

\* jsonCodec: if err != nil { return }, then writesDone.Done().
Skip(k, i) ==
    /\ IsTask(k, i)
    /\ calls[k].task[i] = "erred"
    /\ calls' = [calls EXCEPT ![k] =
                    [@ EXCEPT !.wr = @ - 1, !.task[i] = "skipped"]]
    /\ UNCHANGED <<world, probe>>
    /\ UNCHANGED <<pc, arg, cur, stok, val, mu, writeReady, closes,
                   now, sink, open, noops>>

\* A codec that reads the token of its own call, nextWriteReady.
WriteReadyWaitOnNext(k) == Fired(k)

\* <-writeReady
WriteReadyWait(k) == Fired(calls[k].gate)

\* The codec's read of writeReady unblocks and it calls Write.
WriteBegin(k, i) ==
    /\ IsTask(k, i)
    /\ calls[k].task[i] = "encoded"
    /\ WriteReadyWait(k)
    /\ calls' = [calls EXCEPT ![k].task[i] = "writing"]
    /\ UNCHANGED <<world, probe>>
    /\ UNCHANGED <<pc, arg, cur, stok, val, mu, writeReady, closes,
                   now, sink, open, noops>>

\* A codec that keeps the reference and renders the value when it writes.
EntryRenderedAtWrite(k, i) ==
    [call |-> k, codec |-> Codec(k, i), t |-> calls[k].t,
     tags |-> calls[k].tg[i], v |-> ReadValue(k)]

\* The bytes a codec writes: the timestamp, the tags and the data as it
\* encoded them.  call names the Log call the bytes are of.
Entry(k, i) ==
    [call |-> k, codec |-> Codec(k, i), t |-> calls[k].t,
     tags |-> calls[k].tg[i], v |-> calls[k].buf[i]]

\* Write returns, EncodeLogEntry returns, writesDone.Done().
WriteEnd(k, i) ==
    /\ IsTask(k, i)
    /\ calls[k].task[i] = "writing"
    /\ open
    /\ sink' = Append(sink, Entry(k, i))
    /\ calls' = [calls EXCEPT ![k] =
                    [@ EXCEPT !.wr = @ - 1, !.task[i] = "written"]]
    /\ UNCHANGED <<world, probe>>
    /\ UNCHANGED <<pc, arg, cur, stok, val, mu, writeReady, closes,
                   now, open, noops>>

\* writesDone.Wait()
WritesDoneWait(k) == calls[k].wr = 0

\* go func() { writesDone.Wait(); close(nextWriteReady) }()
Watcher(k) ==
    /\ k \in 1..Len(calls)
    /\ calls[k].watch = "wait"
    /\ WritesDoneWait(k)
    /\ closes' = [closes EXCEPT ![k] = @ + 1]
    /\ calls' = [calls EXCEPT ![k].watch = "done"]
    /\ UNCHANGED <<world, probe>>
    /\ UNCHANGED <<pc, arg, cur, stok, val, mu, writeReady, now,
                   sink, open, noops>>

(***************************************************************************)
(* Sync                                                                    *)
(***************************************************************************)
SyncCall(p) ==
    /\ pc[p] = "idle"
    /\ pc' = [pc EXCEPT ![p] = "slock"]
    /\ UNCHANGED <<world, probe>>
    /\ UNCHANGED <<arg, cur, stok, val, mu, writeReady, closes, now,
                   calls, sink, open, noops>>

SyncLock(p) ==
    /\ pc[p] = "slock"
    /\ mu = NoProc
    /\ mu' = p
    /\ pc' = [pc EXCEPT ![p] = "sread"]
    /\ UNCHANGED <<world, probe>>
    /\ UNCHANGED <<arg, cur, stok, val, writeReady, closes, now,
                   calls, sink, open, noops>>

\* A Sync that keeps the lock while it waits.
SyncReadNoUnlock(p) ==
    /\ pc[p] = "sread"
    /\ stok' = [stok EXCEPT ![p] = writeReady]
    /\ pc' = [pc EXCEPT ![p] = "swait"]
    /\ UNCHANGED <<world, probe>>
    /\ UNCHANGED <<arg, cur, val, mu, writeReady, closes, now,
                   calls, sink, open, noops>>

\* writesDone := globalLogSyncer.writeReady, and Unlock.
SyncRead(p) ==
    /\ pc[p] = "sread"
    /\ stok' = [stok EXCEPT ![p] = writeReady]
    /\ mu' = NoProc
    /\ pc' = [pc EXCEPT ![p] = "swait"]
    /\ UNCHANGED <<world, probe>>
    /\ UNCHANGED <<arg, cur, val, writeReady, closes, now,
                   calls, sink, open, noops>>

\* Sync that reads the pending token again whenever it looks.
SyncWaitsOnPending(p) == writeReady

\* The channel Sync reads: its local writesDone.
SyncWaitsOn(p) == stok[p]

\* <-writesDone
SyncWait(p) ==
    /\ pc[p] = "swait"
    /\ Fired(SyncWaitsOn(p))
    /\ pc' = [pc EXCEPT ![p] = "sret"]
    /\ UNCHANGED <<world, probe>>
    /\ UNCHANGED <<arg, cur, stok, val, mu, writeReady, closes, now,
                   calls, sink, open, noops>>

\* Sync has returned; the caller goes on.
SyncReturn(p) ==
    /\ pc[p] = "sret"
    /\ pc' = [pc EXCEPT ![p] = "idle"]
    /\ stok' = [stok EXCEPT ![p] = 0]
    /\ UNCHANGED <<world, probe>>
    /\ UNCHANGED <<arg, cur, val, mu, writeReady, closes, now,
                   calls, sink, open, noops>>

(***************************************************************************)
(* Deriving contexts                                                       *)
(***************************************************************************)
\* The contexts there can be.
CtxNames == {"bg"} \cup {CtxName[i] : i \in 1..Len(CtxName)}

WithLogger(c, codec) ==
    /\ c \in Known(heap)
    /\ heap' = WithLoggerOp(heap, c, codec)
    /\ UNCHANGED <<globalDebugging, engine, probe>>

WithLogTag(c, tag) ==
    /\ c \in Known(heap)
    /\ heap' = WithLogTagOp(heap, c, KV(tag, ""))
    /\ UNCHANGED <<globalDebugging, engine, probe>>

WithLogTagPair(c, k, v) ==
    /\ c \in Known(heap)
    /\ heap' = WithLogTagOp(heap, c, KV(k, v))
    /\ UNCHANGED <<globalDebugging, engine, probe>>

(***************************************************************************)
(* Debug (the build without the release tag)                               *)
(***************************************************************************)
MaxDebug == 2      \* Log and Debug calls that get to the lock (SpecDebug)
MaxDebugCtx == 7   \* contexts, past which no tagged child is derived

\* The contexts of the callers of Debug: c3 carries three tags and no
\* codec, c4 == WithLogger(c3, text) three tags, a codec and a debug cell.
DebugHeap ==
    WithLoggerOp(
        WithLogTagOp(
            WithLogTagOp(WithLogTagOp(NoHeap, "bg", KV("a", "")),
                         "c1", KV("k", "v")),
            "c2", KV("b", "")),
        "c3", TextCodec)

DebugInputs == { [ctx |-> "c4", d |-> "ok"], [ctx |-> "c3", d |-> "ok"] }

InitDebug ==
    /\ InitSyncer
    /\ InitCallers
    /\ InitProbe
    /\ heap = DebugHeap
    /\ globalDebugging = FALSE
    /\ open = TRUE

\* setGlobalDebuggingEnabled(enabled)
SetGlobalDebuggingEnabled(enabled) ==
    /\ globalDebugging' = enabled
    /\ UNCHANGED <<heap, engine, probe>>

\* setDebuggingEnabled(ctx, enabled)
SetDebuggingEnabled(c, enabled) ==
    /\ c \in Known(heap)
    /\ LET cell == Ctx(heap, c).cell IN
           IF cell # 0 THEN heap' = [heap EXCEPT !.cells[cell] = enabled]
                       ELSE UNCHANGED heap
    /\ UNCHANGED <<globalDebugging, engine, probe>>

\* debuggingEnabled of the release build.
debuggingEnabledRelease(c) == FALSE

\* debuggingEnabled(ctx)
debuggingEnabled(c) ==
    LET cell == Ctx(heap, c).cell IN
        IF cell # 0 THEN heap.cells[cell] ELSE FALSE

\* Calls in progress that got past, or may get past, the lookup of Log.
InDebug(p) == pc[p] \in {"dglobal", "dctx"}
DebugStarted ==
    Started + Cardinality({p \in Procs : InDebug(p) /\ HasLoggers(arg[p].ctx)})
DebugNoops ==
    noops + Cardinality({p \in Procs : InDebug(p) /\ ~HasLoggers(arg[p].ctx)})

\* Debug(ctx, message, data...) is called.
DebugOn(p, in) ==
    /\ pc[p] = "idle"
    /\ IF HasLoggers(in.ctx) THEN DebugStarted < MaxDebug
                             ELSE DebugNoops < MaxNoop
    /\ pc' = [pc EXCEPT ![p] = "dglobal"]
    /\ arg' = [arg EXCEPT ![p] = in]
    /\ UNCHANGED <<world, probe>>
    /\ UNCHANGED <<cur, stok, val, mu, writeReady, closes, now,
                   calls, sink, open, noops>>

DebugCall(p) ==
    /\ pc[p] = "idle"
    /\ \E in \in DebugInputs : DebugOn(p, in)

\* Log(WithLogTag(ctx, "debug"), message, data...) up to the lookup of Log.
DebugLog(p) ==
    LET h == WithLogTagOp(heap, arg[p].ctx, KV("debug", ""))
        c == NextCtx(heap)
    IN  /\ heap' = h
        /\ IF LoggersIn(h, c) # <<>>
           THEN /\ pc' = [pc EXCEPT ![p] = "lock"]
                /\ arg' = [arg EXCEPT ![p].ctx = c]
                /\ UNCHANGED noops
           ELSE /\ pc' = [pc EXCEPT ![p] = "idle"]
                /\ arg' = [arg EXCEPT ![p] = NoArg]
                /\ noops' = noops + 1
        /\ UNCHANGED <<globalDebugging, probe>>
        /\ UNCHANGED <<cur, stok, val, mu, writeReady, closes, now,
                       calls, sink, open>>

\* if globalDebugging.isEnabled() ||
DebugGlobal(p) ==
    /\ pc[p] = "dglobal"
    /\ IF globalDebugging
       THEN DebugLog(p)
       ELSE /\ pc' = [pc EXCEPT ![p] = "dctx"]
            /\ UNCHANGED <<world, probe>>
            /\ UNCHANGED <<arg, cur, stok, val, mu, writeReady, closes,
                           now, calls, sink, open, noops>>

\* || debuggingEnabled(ctx) { ... }
DebugCtx(p) ==
    /\ pc[p] = "dctx"
    /\ IF debuggingEnabled(arg[p].ctx)
       THEN DebugLog(p)
       ELSE /\ pc' = [pc EXCEPT ![p] = "idle"]
            /\ arg' = [arg EXCEPT ![p] = NoArg]
            /\ UNCHANGED <<world, probe>>
            /\ UNCHANGED <<cur, stok, val, mu, writeReady, closes,
                           now, calls, sink, open, noops>>

\* Log on the context the callers of Debug hold.
DebugLogCall(p) ==
    /\ DebugStarted < MaxDebug
    /\ LogStart(p, [ctx |-> "c4", d |-> "ok"])

\* Another goroutine derives a tagged child from that context.
DebugChild == Len(heap.ctxs) < MaxDebugCtx /\ WithLogTag("c4", "x")

(***************************************************************************)
(* The specifications                                                      *)
(***************************************************************************)
Tasks ==
    \E k \in CallSlots : \E i \in CodecSlots :
        Encode(k, i) \/ Skip(k, i) \/ WriteBegin(k, i) \/ WriteEnd(k, i)

Watchers == \E k \in CallSlots : Watcher(k)

LogSteps(p) == LogLock(p) \/ LogSwap(p) \/ LogDispatch(p) \/ LogReturn(p)

SyncSteps(p) ==
    SyncCall(p) \/ SyncLock(p) \/ SyncRead(p) \/ SyncWait(p) \/ SyncReturn(p)

\* Concurrent callers of Log and Sync over a buffer.
Next ==
    \/ \E p \in Procs : LogCall(p) \/ LogSteps(p) \/ SyncSteps(p)
    \/ Tasks
    \/ Watchers

Spec == Init /\ [][Next]_vars

\* Concurrent callers of Log over a buffer, with a clock that runs.
ClockNext ==
    \/ \E p \in Procs :
           \/ LogCall(p) \/ LogLock(p) \/ ClockLogSwap(p)
           \/ LogDispatch(p) \/ LogReturn(p)
    \/ Tasks
    \/ Watchers

SpecClock == Init /\ [][ClockNext]_vars

\* Callers of Log and Sync over a blocking writer, which mutate the value
\* they log between calls.
AsyncNext ==
    \/ \E p \in Procs :
           AsyncLogCall(p) \/ LogSteps(p) \/ SyncSteps(p) \/ Mutate(p)
    \/ Tasks
    \/ Watchers
    \/ OpenSink

SpecAsync == InitBlocked /\ [][AsyncNext]_vars

\* Callers of Log and Sync over a blocking writer, scheduled fairly.
LiveNext ==
    \/ \E p \in Procs : LiveLogCall(p) \/ LogSteps(p) \/ SyncSteps(p)
    \/ Tasks
    \/ Watchers
    \/ OpenSink

\* The scheduler runs every goroutine that can run, and the mutex hands the
\* lock to every goroutine that waits for it.  Nothing makes a caller call,
\* the sink's release happen or a Write return.
CallerRuns(p) ==
    LogSwap(p) \/ LogDispatch(p) \/ LogReturn(p) \/ SyncRead(p)
    \/ SyncWait(p) \/ SyncReturn(p)

CallerLocks(p) == LogLock(p) \/ SyncLock(p)

TaskRuns(k, i) == Encode(k, i) \/ Skip(k, i) \/ WriteBegin(k, i)

LiveFairness ==
    /\ \A p \in Procs : WF_vars(CallerRuns(p)) /\ SF_vars(CallerLocks(p))
    /\ \A k \in CallSlots : WF_vars(Watcher(k))
    /\ \A k \in CallSlots : \A i \in CodecSlots : WF_vars(TaskRuns(k, i))

SpecLive == InitBlocked /\ [][LiveNext]_vars /\ LiveFairness

\* The same callers over a sink that is released and whose every Write
\* returns: the scheduler is fair as in SpecLive, and so is the sink.
SinkFairness ==
    /\ WF_vars(OpenSink)
    /\ \A k \in CallSlots : \A i \in CodecSlots : WF_vars(WriteEnd(k, i))

SpecFair == InitBlocked /\ [][LiveNext]_vars /\ LiveFairness /\ SinkFairness

\* A caller that makes Data values and reads them back.
SpecData == Init /\ [][DataNext]_vars

\* A caller that derives contexts from context.Background() and from one
\* another.
DeriveLogger(c, codec) == Len(heap.ctxs) < MaxCtx /\ WithLogger(c, codec)
DeriveTag(c) == Len(heap.ctxs) < MaxCtx /\ WithLogTag(c, "a")
DeriveTagPair(c) == Len(heap.ctxs) < MaxCtx /\ WithLogTagPair(c, "k", "v")

CtxNext ==
    \E c \in CtxNames :
        \/ \E codec \in {TextCodec, JSONCodec} : DeriveLogger(c, codec)
        \/ DeriveTag(c)
        \/ DeriveTagPair(c)

SpecCtx == Init /\ [][CtxNext]_vars

\* Callers of Debug and Log on one context, next to goroutines that set the
\* debug flags and derive a tagged child from the context.
DebugNext ==
    \/ \E p \in Procs :
           \/ DebugCall(p) \/ DebugGlobal(p) \/ DebugCtx(p)
           \/ DebugLogCall(p) \/ LogSteps(p)
    \/ \E enabled \in BOOLEAN :
           SetGlobalDebuggingEnabled(enabled)
           \/ SetDebuggingEnabled("c4", enabled)
    \/ DebugChild
    \/ \E k \in CallSlots : Encode(k, 1) \/ WriteBegin(k, 1) \/ WriteEnd(k, 1)
    \/ Watchers

SpecDebug == InitDebug /\ [][DebugNext]_vars

\* Goroutines that derive contexts, with a codec or a tag, from
\* context.Background() and from one another and set the debug flag of any
\* of them, next to a caller of Debug on any of them.
MaxFlagCtx == 3    \* contexts, past which none is derived but by Debug
MaxFlagDebug == 1  \* Debug calls that get into Log (SpecFlags)

Debugger == "p1"

FlagLogger(c) == Len(heap.ctxs) < MaxFlagCtx /\ WithLogger(c, TextCodec)
FlagTag(c) == Len(heap.ctxs) < MaxFlagCtx /\ WithLogTag(c, "a")
FlagDebug(p) ==
    /\ pc[p] = "idle"
    /\ Len(calls) + noops < MaxFlagDebug
    /\ \E c \in Known(heap) : DebugOn(p, [ctx |-> c, d |-> "ok"])

FlagsNext ==
    \/ \E c \in CtxNames : FlagLogger(c) \/ FlagTag(c)
    \/ \E c \in CtxNames : \E enabled \in BOOLEAN :
           SetDebuggingEnabled(c, enabled)
    \/ \E p \in {Debugger} :
           FlagDebug(p) \/ DebugGlobal(p) \/ DebugCtx(p) \/ LogSteps(p)
    \/ \E k \in CallSlots : Encode(k, 1) \/ WriteBegin(k, 1) \/ WriteEnd(k, 1)
    \/ Watchers

SpecFlags == Init /\ [][FlagsNext]_vars

(***************************************************************************)
(* Vocabulary of the claims                                                *)
(***************************************************************************)
CallIds == 1..Len(calls)

\* The goroutines of call k were started.
Spawned(k) == calls[k].watch # "none"

NumCodecs(k) == Len(Loggers(calls[k].ctx))

\* The Log call k has returned to its caller.
Returned(k) == cur[calls[k].p] # k

\* Caller p is inside Log, past the lookup.
InLog(p) == pc[p] \in {"lock", "swap", "unlock", "wait"}

\* Codec i of call k has called Write / Write has returned.
WriteBegun(k, i) == Spawned(k) /\ calls[k].task[i] \in {"writing", "written"}
WriteDone(k, i) == Spawned(k) /\ calls[k].task[i] = "written"

\* Every codec of call k that encodes its entry has written it.
AllWritten(k) ==
    \A i \in 1..NumCodecs(k) : ~EncodeFails(k, i) => WriteDone(k, i)

\* The entries of codec i of call k in the sink.
EntriesOf(k, i) ==
    {n \in 1..Len(sink) : sink[n].call = k /\ sink[n].codec = Codec(k, i)}

(***************************************************************************)
(* C1: the entries a codec writes appear in call-start order.  Of two Log  *)
(* calls that write through the same codec, the one that swapped the token *)
(* first has completed its Write before the other begins its own.          *)
(***************************************************************************)
C1_WritesInCallStartOrder ==
    \A a, b \in CallIds :
        \A i \in 1..NumCodecs(a), j \in 1..NumCodecs(b) :
            ( /\ a < b
              /\ Codec(a, i) = Codec(b, j)
              /\ ~EncodeFails(a, i)
              /\ ~EncodeFails(b, j)
              /\ WriteBegun(b, j) )
            => WriteDone(a, i)

(***************************************************************************)
(* C2: Log starts exactly one encode task per attached codec, and when it  *)
(* has returned every one of them has called encodeDone: none is still     *)
(* reading its input.                                                      *)
(***************************************************************************)
C2_LogReturnsAfterEveryEncode ==
    \A k \in CallIds :
        /\ Spawned(k) => Len(calls[k].task) = NumCodecs(k)
        /\ Returned(k) =>
              /\ Spawned(k)
              /\ \A i \in 1..NumCodecs(k) : calls[k].task[i] # "encode"

\* A call on a context with two codecs has returned with a write to come.
C2_Witness ==
    \E k \in CallIds :
        /\ NumCodecs(k) = 2
        /\ Returned(k)
        /\ Spawned(k)
        /\ \E i \in 1..2 : calls[k].task[i] = "encoded"

(***************************************************************************)
(* C3: the codecs read a value passed by reference only before they call   *)
(* encodeDone.  The bytes written for a call, whenever they are written,   *)
(* encode the value as it was during the call; and of a caller's two calls *)
(* in a row through the same codec, the first entry (123) is written       *)
(* before the second (124).                                                *)
(***************************************************************************)
C3_EncodesValueOfTheCall ==
    /\ \A n \in 1..Len(sink) : sink[n].v = calls[sink[n].call].v
    /\ \A k \in CallIds : \A i \in 1..Len(calls[k].task) :
          calls[k].task[i] # "encode" => calls[k].buf[i] = calls[k].v
    /\ \A k \in CallIds : \A i \in 1..NumCodecs(k) :
          ( /\ k + 1 \in CallIds
            /\ calls[k + 1].p = calls[k].p
            /\ calls[k + 1].ctx = calls[k].ctx
            /\ ~EncodeFails(k, i)
            /\ EntriesOf(k + 1, i) # {} )
          => \E m \in EntriesOf(k, i) : \A n \in EntriesOf(k + 1, i) : m < n

\* The test: a caller logged 123, mutated the value, logged 124, and the
\* sink, released after both calls, reads 123 then 124.
C3_Witness ==
    /\ Len(sink) = 2
    /\ sink[1].call = 1 /\ sink[1].v = InitVal
    /\ sink[2].call = 2 /\ sink[2].v = InitVal + 1
    /\ calls[1].p = calls[2].p
    /\ calls[1].ctx = calls[2].ctx

(***************************************************************************)
(* C5: when Sync returns, every Log call that swapped the token before     *)
(* Sync read it has finished writing on every codec of its context.        *)
(***************************************************************************)
C5_SyncCoversEveryEarlierCall ==
    \A p \in Procs :
        pc[p] = "sret" => \A k \in CallIds : k <= stok[p] => AllWritten(k)

(***************************************************************************)
(* C6: a codec whose encode step fails does not break the ordering chain.  *)
(* After a call f with a failed encode, the writes of every later call     *)
(* begin only after all writes of every call before f have finished, and   *)
(* Sync still waits for those earlier writes.                              *)
(***************************************************************************)
C6_FailedEncodeKeepsTheChain ==
    \A f \in CallIds :
        (\E i \in 1..NumCodecs(f) : EncodeFails(f, i)) =>
            /\ \A a, b \in CallIds :
                  (a < f /\ f < b /\ \E j \in 1..NumCodecs(b) : WriteBegun(b, j))
                  => AllWritten(a)
            /\ \A p \in Procs : \A a \in CallIds :
                  (pc[p] = "sret" /\ f <= stok[p] /\ a < f) => AllWritten(a)

(***************************************************************************)
(* C7: with a clock that never runs backwards, timestamps agree with       *)
(* call-start order, so the timestamps of the entries in the sink (of all  *)
(* contexts that write to it) are non-decreasing in write order.           *)
(***************************************************************************)
C7_TimestampsInWriteOrder ==
    /\ \A a, b \in CallIds : a < b => calls[a].t <= calls[b].t
    /\ \A m, n \in 1..Len(sink) : m < n => sink[m].t <= sink[n].t

\* The half of C7 that the code keeps: timestamps follow the swap order.
TimestampsInSwapOrder ==
    \A a, b \in CallIds : a < b => calls[a].t <= calls[b].t

(***************************************************************************)
(* C8: no entry is lost or duplicated.  No codec of a call writes more     *)
(* than one entry; and when a caller's Log calls on one context with one   *)
(* codec have returned and its Sync after them has returned, the sink      *)
(* holds exactly one entry for every one of those calls that encoded one.  *)
(***************************************************************************)
C8_NoEntryLostOrDuplicated ==
    /\ \A k \in CallIds : \A i \in 1..NumCodecs(k) :
          Cardinality(EntriesOf(k, i)) <= 1
    /\ \A p \in Procs :
          ( /\ pc[p] = "sret"
            /\ \A k \in CallIds :
                  k <= stok[p] =>
                      /\ calls[k].p = p
                      /\ calls[k].ctx = calls[1].ctx
                      /\ NumCodecs(k) = 1 )
          => \A k \in CallIds :
                 (k <= stok[p] /\ ~EncodeFails(k, 1))
                 => Cardinality(EntriesOf(k, 1)) = 1

\* The half of C8 that the code keeps: nothing is written twice, and a
\* failed encode writes nothing.
NoEntryDuplicated ==
    \A k \in CallIds : \A i \in 1..NumCodecs(k) :
        /\ Cardinality(EntriesOf(k, i)) <= 1
        /\ EncodeFails(k, i) => EntriesOf(k, i) = {}

(***************************************************************************)
(* C9: Log on a context with no codec is a no-op.  It returns at the       *)
(* lookup, whatever tags the context carries: the lock, the pending token, *)
(* the clock, the calls with their tasks and the sink are as they were,    *)
(* and no Log call on such a context ever gets to the lock.                *)
(***************************************************************************)
C9_NoCodecNoEffect ==
    /\ [][noops' # noops =>
            UNCHANGED <<pc, arg, cur, stok, val, mu, writeReady, closes,
                        now, calls, sink, open>>]_vars
    /\ [](\A p \in Procs : InLog(p) => Loggers(arg[p].ctx) # <<>>)
    /\ [](\A k \in CallIds : Loggers(calls[k].ctx) # <<>>)

\* A Log on the tagged context without codec has returned while a call with
\* a codec is in flight and its token pending.
C9_Witness ==
    /\ noops = MaxNoop
    /\ Len(calls) >= 1
    /\ ~Fired(writeReady)
    /\ \E k \in CallIds : Spawned(k) /\ ~AllWritten(k)

(***************************************************************************)
(* C4: Log never waits for a write.  Over a sink that blocks every Write   *)
(* for as long as it likes (for ever, too), every Log call returns.        *)
(***************************************************************************)
C4_LogReturnsWhileSinkBlocked ==
    \A p \in Procs : InLog(p) ~> (pc[p] = "idle")

\* Every call has returned, the second with its gate not fired, and the
\* sink is blocked and empty.
C4_Witness ==
    /\ Len(calls) = MaxLive
    /\ \A k \in CallIds : Spawned(k) /\ Returned(k)
    /\ \E k \in CallIds : ~Fired(calls[k].gate)
    /\ ~open
    /\ sink = <<>>

(***************************************************************************)
(* C10: Sync does not cover later calls.  Once every Log call that swapped *)
(* before Sync read the pending token has finished writing, Sync returns,  *)
(* whether or not the writes of later calls ever complete.                 *)
(***************************************************************************)
C10_SyncIgnoresLaterCalls ==
    \A p \in Procs :
        (pc[p] = "swait" /\ \A k \in CallIds : k <= stok[p] => AllWritten(k))
            ~> (pc[p] = "sret")

\* Sync has returned over an earlier call that wrote, while a later call has
\* not written.
C10_Witness ==
    \E p \in Procs :
        /\ pc[p] = "sret"
        /\ stok[p] >= 1
        /\ \E k \in CallIds : k <= stok[p] /\ WriteDone(k, 1)
        /\ \E k \in CallIds : k > stok[p] /\ ~AllWritten(k)

(***************************************************************************)
(* C14: round trip of the value model.  A Data made by the constructor of  *)
(* a kind and read with the accessor of that kind returns the value given, *)
(* bit for bit: a negative int64 goes through the unsigned store, a        *)
(* float64 (NaNs and infinities too) through its bits.  Name and Type      *)
(* return the name and the kind given.                                     *)
(***************************************************************************)
KindType(kind) ==
    CASE kind = "String" -> ValueTypeString
      [] kind = "Int64" -> ValueTypeInt64
      [] kind = "Uint64" -> ValueTypeUint64
      [] kind = "Float64" -> ValueTypeFloat64
      [] kind = "Any" -> ValueTypeAny
      [] OTHER -> ValueTypeUnknown

TypedKinds == {"String", "Int64", "Uint64", "Float64"}

C14_RoundTrip ==
    /\ dat.kind \in {"Int64", "Uint64", "Float64"} =>
          dat.d.numBits \in Uint64Values
    /\ got.op = "Name" => (got.res = "value" /\ got.v = dat.name)
    /\ got.op = "Type" => (got.res = "value" /\ got.v = KindType(dat.kind))
    /\ (got.op \in TypedKinds /\ got.op = dat.kind) =>
          (got.res = "value" /\ got.v = dat.v)

\* A negative int64, stored as a uint64 with the top bit set, was read back.
C14_Witness ==
    /\ dat.kind = "Int64"
    /\ dat.v < 0
    /\ dat.d.numBits >= 2 ^ (Width - 1)
    /\ got.op = "Int64"
    /\ got.res = "value"
    /\ got.v = dat.v

(***************************************************************************)
(* C15: String, Int64, Uint64 or Float64 on a Data of another kind, the    *)
(* zero Data included, panics and returns no value; Value on the zero Data *)
(* panics.                                                                 *)
(***************************************************************************)
C15_WrongKindPanics ==
    /\ (got.op \in TypedKinds /\ got.op # dat.kind) => got.res = "panic"
    /\ (got.op = "Value" /\ dat.kind = "zero") => got.res = "panic"

\* Uint64 was called on a Data made by Int64, and panicked.
C15_Witness ==
    /\ dat.kind = "Int64"
    /\ got.op = "Uint64"
    /\ got.res = "panic"

(***************************************************************************)
(* C12: WithLogger, WithLogTag and WithLogTagPair leave the parent         *)
(* unchanged.  Over every derivation of a child, the codec list and the    *)
(* tag list read through the parent are what they were before it, however  *)
(* many children the parent already has.                                   *)
(***************************************************************************)
C12_ParentUnchanged ==
    [][heap'.ctxs # heap.ctxs =>
          LET par == heap'.ctxs[Len(heap'.ctxs)].parent IN
              /\ LoggersIn(heap', par) = LoggersIn(heap, par)
              /\ TagsIn(heap', par) = TagsIn(heap, par)]_vars

\* Two children were derived from a parent whose tag slice had room, both
\* in the parent's backing array, and the parent's lists are those it was
\* derived with.
C12_Witness ==
    \E i, j, k \in 1..Len(heap.ctxs) :
        /\ j # k
        /\ heap.ctxs[j].parent = CtxName[i]
        /\ heap.ctxs[k].parent = CtxName[i]
        /\ heap.ctxs[j].tags.len = heap.ctxs[i].tags.len + 1
        /\ heap.ctxs[k].tags.len = heap.ctxs[i].tags.len + 1
        /\ heap.ctxs[j].tags.arr = heap.ctxs[i].tags.arr
        /\ heap.ctxs[k].tags.arr = heap.ctxs[i].tags.arr
        /\ TagsIn(heap, CtxName[i]) = heap.made[i].tags
        /\ LoggersIn(heap, CtxName[i]) = heap.made[i].loggers

(***************************************************************************)
(* C13: the list of a derived context is the parent's list plus the one    *)
(* added element and stays so.  Whatever is derived later from whatever    *)
(* context, the codec list and the tag list read through a derived context *)
(* are those it was derived with.                                          *)
(***************************************************************************)
C13_DerivedListsNeverChange ==
    \A i \in 1..Len(heap.ctxs) :
        /\ LoggersIn(heap, CtxName[i]) = heap.made[i].loggers
        /\ TagsIn(heap, CtxName[i]) = heap.made[i].tags

(***************************************************************************)
(* C11: Sync returns without blocking when no Log call on a context with   *)
(* codecs has been made.  Until the first such call swaps, the pending     *)
(* token is the initial one, which is fired, whatever Log calls on         *)
(* contexts without codecs were made; and a Sync that read the initial     *)
(* token can always go on.                                                 *)
(***************************************************************************)
C11_SyncWithoutLogReturns ==
    /\ calls = <<>> => (writeReady = 0 /\ Fired(writeReady))
    /\ \A p \in Procs :
          (pc[p] = "swait" /\ stok[p] = 0) => ENABLED SyncWait(p)

\* Sync has returned after a Log on a context without codecs, no call with
\* codecs made.
C11_Witness ==
    /\ calls = <<>>
    /\ noops = MaxNoop
    /\ \E p \in Procs : pc[p] = "sret" /\ stok[p] = 0

(***************************************************************************)
(* C18: the tokens form a chain in swap order.  Call k reads token k - 1   *)
(* as its gate and installs token k, the pending token is that of the last *)
(* call, no token is closed twice, and token k is not fired before token   *)
(* k - 1 is.                                                               *)
(***************************************************************************)
C18_TokenChain ==
    /\ writeReady = Len(calls)
    /\ \A t \in Tokens : closes[t] <= 1
    /\ \A k \in CallIds : calls[k].gate = k - 1
    /\ \A k \in CallIds : Fired(k) => Fired(k - 1)

\* The part of C18 that the code keeps: one fresh token per call, installed
\* where its predecessor is read, closed at most once and never reopened.
TokensFreshAndFiredOnce ==
    /\ writeReady = Len(calls)
    /\ \A t \in Tokens : closes[t] <= 1
    /\ \A k \in CallIds : calls[k].gate = k - 1
    /\ \A t \in Tokens : t > Len(calls) => ~Fired(t)

TokensStayFired == [][\A t \in Tokens : Fired(t) => Fired(t)']_vars

(***************************************************************************)
(* C19: the write barrier is global.  No codec of a call begins its write  *)
(* until every codec of every earlier call, on whatever context, has       *)
(* finished; the codecs of one call do not wait for each other.            *)
(***************************************************************************)
Finished(k, i) == Spawned(k) /\ calls[k].task[i] \in {"written", "skipped"}

C19_GlobalWriteBarrier ==
    \A a, b \in CallIds :
        (a < b /\ \E j \in 1..NumCodecs(b) : WriteBegun(b, j))
        => \A i \in 1..NumCodecs(a) : Finished(a, i)

\* The part of C19 that the code keeps: the barrier between a call and the
\* next one.
BarrierBetweenNeighbours ==
    \A b \in CallIds :
        (b > 1 /\ \E j \in 1..NumCodecs(b) : WriteBegun(b, j))
        => \A i \in 1..NumCodecs(b - 1) : Finished(b - 1, i)

(***************************************************************************)
(* C20: the global lock is held only for the token swap and the clock      *)
(* reading in Log and for the token read in Sync.  Its holder is at one of *)
(* these steps, which waits for nothing: it is never encoding, waiting on  *)
(* a token or on the encodes, or writing.                                  *)
(***************************************************************************)
C20_LockOnlyAroundTheSwap ==
    /\ mu \in Procs \cup {NoProc}
    /\ \A p \in Procs :
          /\ pc[p] \in {"swap", "unlock", "sread"} => mu = p
          /\ mu = p =>
                /\ pc[p] \in {"swap", "unlock", "sread"}
                /\ ENABLED (LogSwap(p) \/ LogDispatch(p) \/ SyncRead(p))

\* A caller of Sync holds the lock while a write of an earlier call is
\* stalled in the blocked sink and another task waits on its token.
C20_Witness ==
    /\ ~open
    /\ \E p \in Procs : mu = p /\ pc[p] = "sread"
    /\ \E k \in CallIds : \E i \in 1..NumCodecs(k) :
          Spawned(k) /\ calls[k].task[i] = "writing"
    /\ \E k \in CallIds : \E i \in 1..NumCodecs(k) :
          Spawned(k) /\ calls[k].task[i] = "encoded" /\ ~Fired(calls[k].gate)

(***************************************************************************)
(* C16: Debug logs if and only if, when it looks, global debugging is      *)
(* enabled or the debug flag of its context is.  Both are disabled at the  *)
(* start.  A Debug that finds the global flag enabled, or the flag of its  *)
(* context enabled, goes on into Log, to the lock when the context has a   *)
(* codec; one that finds both disabled returns and changes nothing: no     *)
(* context derived, no token swapped, no task, no write.                   *)
(***************************************************************************)
\* The flag in the debug cell reachable from context c.
FlagOf(c) == Ctx(heap, c).cell # 0 /\ heap.cells[Ctx(heap, c).cell]

DebugLogs(p) ==
    /\ Len(heap'.ctxs) = Len(heap.ctxs) + 1
    /\ IF LoggersIn(heap, arg[p].ctx) # <<>>
       THEN pc'[p] = "lock" /\ arg'[p].ctx = NextCtx(heap)
       ELSE pc'[p] = "idle"

DebugDoesNothing ==
    UNCHANGED <<heap, globalDebugging, cur, stok, val, mu, writeReady,
                closes, now, calls, sink, open, noops>>

C16_DebugOnlyWhenEnabled ==
    /\ ~globalDebugging
    /\ \A i \in 1..Len(heap.cells) : ~heap.cells[i]
    /\ [][\A p \in Procs :
            /\ (pc[p] = "dglobal" /\ pc'[p] # "dglobal") =>
                  IF globalDebugging
                  THEN DebugLogs(p)
                  ELSE pc'[p] = "dctx" /\ DebugDoesNothing
            /\ (pc[p] = "dctx" /\ pc'[p] # "dctx") =>
                  IF FlagOf(arg[p].ctx)
                  THEN DebugLogs(p)
                  ELSE pc'[p] = "idle" /\ DebugDoesNothing]_vars

\* The entry of a Debug call on c4 is in the sink, with the flag of the
\* context enabled and global debugging off; no other call got to the lock.
C16_Witness ==
    /\ ~globalDebugging
    /\ FlagOf("c4")
    /\ Len(calls) = 1
    /\ Len(sink) = 1
    /\ calls[1].ctx = "c5"
    /\ heap.ctxs[5].parent = "c4"
    /\ Len(heap.ctxs) = 5

(***************************************************************************)
(* C17: every entry of a Debug(ctx, ...) call carries the tags of ctx      *)
(* followed by the tag "debug", and the entries of Log(ctx, ...) carry the *)
(* tags of ctx, while other goroutines call Debug on the same context or   *)
(* derive tagged children from it.                                         *)
(***************************************************************************)
C17_DebugTagLast ==
    \A n \in 1..Len(sink) :
        LET c == calls[sink[n].call].ctx IN
            /\ sink[n].tags = heap.made[CtxIndex(c)].tags
            /\ heap.ctxs[CtxIndex(c)].parent = "c4" =>
                  sink[n].tags = Append(heap.made[4].tags, KV("debug", ""))

\* The part of C17 that the code keeps: the entries of Log(ctx, ...) carry
\* the tags of ctx, whatever Debug calls and derivations there are.
LogTagsKept ==
    \A n \in 1..Len(sink) :
        calls[sink[n].call].ctx = "c4" => sink[n].tags = heap.made[4].tags

(***************************************************************************)
(* C21: when every Log call is made on a context with exactly one codec,   *)
(* at most one write to a sink is in progress at any time: the token chain *)
(* excludes the writes of different calls from one another.                *)
(***************************************************************************)
\* The writes in progress: Write was called and has not returned.
Writing == {<<k, i>> \in CallIds \X CodecSlots :
               Spawned(k) /\ i <= NumCodecs(k) /\ calls[k].task[i] = "writing"}

C21_OneWriteAtATime ==
    (\A k \in CallIds : NumCodecs(k) = 1) => Cardinality(Writing) <= 1

\* The part of C21 that the code keeps: the writes exclude one another as
\* long as no encode fails.
OneWriteAtATimeWithoutFailure ==
    (\A k \in CallIds : NumCodecs(k) = 1 /\ calls[k].d = "ok")
    => Cardinality(Writing) <= 1

\* The two codecs of one call on a context with two codecs write at once
\* (a state SpecLive reaches).
TwoWritesOfOneCall ==
    \E k \in CallIds : <<k, 1>> \in Writing /\ <<k, 2>> \in Writing

(***************************************************************************)
(* C22: the engine has no deadlock of its own.  Under fair scheduling and  *)
(* over a sink whose every Write returns, every Log call returns, every    *)
(* call's token fires and every entry it encoded is written, and every     *)
(* Sync call returns, whatever the interleaving of the calls.              *)
(***************************************************************************)
InSync(p) == pc[p] \in {"slock", "sread", "swait"}

C22_NoDeadlock ==
    /\ \A p \in Procs : InLog(p) ~> (pc[p] = "idle")
    /\ \A p \in Procs : InSync(p) ~> (pc[p] = "sret")
    /\ \A k \in 1..MaxLive :
          (k \in CallIds)
              ~> (k \in CallIds /\ Returned(k) /\ Fired(k) /\ AllWritten(k))

\* All the calls have returned, their tokens have fired and their entries
\* are in the sink, one call with a failed encode among them, and a Sync
\* that came after them has returned.
C22_Witness ==
    /\ Len(calls) = MaxLive
    /\ \A k \in CallIds : Returned(k) /\ Fired(k) /\ AllWritten(k)
    /\ \E k \in CallIds : \E i \in 1..NumCodecs(k) : EncodeFails(k, i)
    /\ sink # <<>>
    /\ \E p \in Procs : pc[p] = "sret" /\ stok[p] = MaxLive

(***************************************************************************)
(* C23: the debug flag of a context is one cell shared along its chain.    *)
(* The first WithLogger on a chain makes the cell, disabled, and every     *)
(* context derived afterwards reads the same cell: SetDebuggingEnabled on  *)
(* any context of the chain sets what Debug finds on all of them, the      *)
(* context of that first WithLogger, its children and their siblings, and  *)
(* on no other context.  SetDebuggingEnabled on a context with no logger   *)
(* in its ancestry changes nothing, so a logger attached later starts with *)
(* debugging disabled.                                                     *)
(***************************************************************************)
\* Context c was derived, through any number of steps, by a WithLogger.
HasLoggerAbove(c) ==
    c \in Derived(heap) /\ heap.made[CtxIndex(c)].loggers # <<>>

\* The context the first WithLogger on the chain of c returned.
RECURSIVE ChainRoot(_)
ChainRoot(c) ==
    IF ~HasLoggerAbove(c) THEN "none"
    ELSE IF HasLoggerAbove(Ctx(heap, c).parent)
         THEN ChainRoot(Ctx(heap, c).parent)
         ELSE c

ChainRoots == [c \in Known(heap) |-> ChainRoot(c)]

\* Contexts c and d are on one chain, given the roots of all of them.
SameChain(root, c, d) == root[c] # "none" /\ root[c] = root[d]

\* A step of SetDebuggingEnabled(c, enabled) sets the flag of the contexts
\* on the chain of c and of no other.
SetReachesTheChain ==
    LET root == ChainRoots IN
    \A c \in Known(heap) : \A enabled \in BOOLEAN :
        SetDebuggingEnabled(c, enabled) =>
            \A d \in Known(heap) :
                FlagOf(d)' = IF SameChain(root, c, d) THEN enabled
                                                     ELSE FlagOf(d)

\* A step that derives a context changes no flag; the new context has the
\* flag of its parent's chain, and a disabled one when there is none.
DerivedInheritsTheFlag ==
    Len(heap'.ctxs) = Len(heap.ctxs) + 1 =>
        /\ \A d \in Known(heap) : FlagOf(d)' = FlagOf(d)
        /\ \A n \in Known(heap') \ Known(heap) :
               \A par \in {heap'.ctxs[CtxIndex(n)].parent} :
                   FlagOf(n)' = (HasLoggerAbove(par) /\ FlagOf(par))

\* Debug, past the global flag, logs exactly when the flag was enabled
\* through some context of its chain.
DebugFollowsTheChain ==
    \A p \in Procs :
        (pc[p] = "dctx" /\ pc'[p] # "dctx") =>
            IF \E d \in Known(heap) :
                   SameChain(ChainRoots, d, arg[p].ctx) /\ FlagOf(d)
            THEN DebugLogs(p)
            ELSE pc'[p] = "idle" /\ DebugDoesNothing

C23_SharedDebugFlag ==
    /\ [](LET root == ChainRoots IN
          \A c, d \in Known(heap) :
              /\ SameChain(root, c, d) => FlagOf(c) = FlagOf(d)
              /\ root[c] = "none" => ~FlagOf(c))
    /\ [][SetReachesTheChain]_vars
    /\ [][DerivedInheritsTheFlag]_vars
    /\ [][DebugFollowsTheChain]_vars

\* A chain with its first logger and two children of it, one of them the
\* context Debug made to write its entry, has debugging enabled; a logger
\* attached to the background afterwards is disabled.
C23_Witness ==
    /\ sink # <<>>
    /\ \E r \in Derived(heap) :
          /\ Ctx(heap, r).parent = "bg" /\ ChainRoot(r) = r /\ FlagOf(r)
          /\ \E a \in Derived(heap) :
                /\ Ctx(heap, a).parent = r /\ FlagOf(a)
                /\ \E n \in 1..Len(sink) :
                      \E c \in {calls[sink[n].call].ctx} :
                          c # a /\ Ctx(heap, c).parent = r /\ FlagOf(c)
                /\ \E g \in Derived(heap) \ {r} :
                      /\ CtxIndex(g) > CtxIndex(a)
                      /\ ChainRoot(g) = g /\ ~FlagOf(g)

====
